---- MODULE Spec2Model ----
(***************************************************************************)
(* X11DRV initialisation code (dlls/x11drv/x11drv_main.c): the TSX11       *)
(* serialization hooks, the errno redirection of the non-reentrant build,  *)
(* setup_options, create_desktop, process_attach and process_detach.       *)
(*                                                                         *)
(* Thread 1 is the thread that loads and unloads the driver; the other     *)
(* threads are host threads that call the TSX wrappers while the driver is *)
(* ready and that may read errno / h_errno at any time.                    *)
(***************************************************************************)
EXTENDS Integers, Sequences, FiniteSets, TLC

\* ------------------------------------------------------------------ bounds
NumWorkers == 2      \* host threads besides the loading thread
MaxNest == 2         \* deepest re-entry of the TSX wrappers on one thread

MainThread == 1
Workers == 2..(NumWorkers + 1)
Threads == {MainThread} \cup Workers
NoThread == 0        \* CRITICAL_SECTION.OwningThread when unowned

NULL == "NULL"       \* a null pointer / an absent registry value or variable

VARIABLES
    build,          \* the configuration the driver was compiled with
    phase,          \* "Unattached", "Attaching", "Ready", "Detaching", "Detached", "Exited"
    mpc,            \* index of the loading thread's next statement
    xcall,          \* the Xlib function the loading thread is executing, or NULL
    Options,        \* Options.display / managed / desktopGeometry
    env_DISPLAY,    \* getenv("DISPLAY")
    registry,       \* values of Software\Wine\Wine\Config\x11drv
    messages,       \* the MESSAGEs and ERRs printed
    exit_status,    \* argument of ExitProcess, or NULL
    hooks,          \* wine_tsx11_lock, wine_tsx11_unlock, wine_errno_location, wine_h_errno_location
    old,            \* old_tsx11_lock, old_tsx11_unlock, old_errno_location, old_h_errno_location
    X11DRV_CritSection,
    display,        \* Display *display
    visual,         \* Visual *visual
    screen_depth,
    root_window,
    window,         \* the desktop window: "none", "created", "mapped"
    hints,          \* size_hints, wm_hints, class_hints of create_desktop
    local,          \* locals of the running function that a later statement reads
    keyboard_state, \* the XKeyboardState saved at attach
    server_keyboard,\* the keyboard settings the X server holds
    wine_ini,       \* the [x11drv] section of the configuration file
    log,            \* the statements and library calls executed by the loading thread
    wpc,            \* per thread: position in the TSX wrapper
    nest,           \* per thread: lock hook calls not yet matched by an unlock hook call
    screen_saver,   \* the last X11DRV_SetScreenSaveTimeout: its argument and the
                    \* timeout it passed to TSXSetScreenSaver
    lastRead        \* the last read of errno / h_errno: whether the reader held the
                    \* section, and which location it got

vars == <<build, phase, mpc, xcall, Options, env_DISPLAY, registry, messages,
          exit_status, hooks, old, X11DRV_CritSection, display, visual, screen_depth,
          root_window, window, hints, local, keyboard_state, server_keyboard,
          wine_ini, log, wpc, nest, screen_saver, lastRead>>

\* ------------------------------------------------- the critical section
\* RtlEnterCriticalSection: the set of states the call can return in; empty
\* while another thread owns the section (the caller blocks).
RtlEnterCriticalSection(cs, t) ==
    IF cs.OwningThread \in {NoThread, t}
    THEN {[OwningThread |-> t, RecursionCount |-> cs.RecursionCount + 1]}
    ELSE {}

RtlLeaveCriticalSection(cs, t) ==
    IF cs.RecursionCount - 1 # 0
    THEN {[cs EXCEPT !.RecursionCount = cs.RecursionCount - 1]}
    ELSE {[OwningThread |-> NoThread, RecursionCount |-> 0]}

\* A lock hook that takes the section without waiting for its owner.
lock_tsx11_nowait(cs, t) ==
    {[OwningThread |-> t, RecursionCount |-> cs.RecursionCount + 1]}

lock_tsx11(cs, t) == RtlEnterCriticalSection(cs, t)

\* An unlock hook that gives the section up on the first release.
unlock_tsx11_drop(cs, t) ==
    {[OwningThread |-> NoThread, RecursionCount |-> 0]}

unlock_tsx11(cs, t) == RtlLeaveCriticalSection(cs, t)

\* The hooks the tsx11 library starts with do nothing.
CallLockHook(h, cs, t) ==
    IF h = "lock_tsx11" THEN lock_tsx11(cs, t) ELSE {cs}

CallUnlockHook(h, cs, t) ==
    IF h = "unlock_tsx11" THEN unlock_tsx11(cs, t) ELSE {cs}

\* ------------------------------------------------- errno redirection
\* Locations: the static libc slot (perrno / ph_errno), or the slot of
\* thread t that the hook installed before the driver returns.
StaticSlot == [kind |-> "static", thread |-> NoThread]
ThreadSlot(t) == [kind |-> "thread", thread |-> t]
Fault == [kind |-> "fault", thread |-> NoThread]

\* Calling through a function pointer: NULL is undefined behaviour (a fault,
\* or a return with any location).
CallLocationHook(h, cs, t) ==
    CASE h \in {"libc_errno_location", "libc_h_errno_location"} -> {ThreadSlot(t)}
      [] h = NULL -> {Fault, StaticSlot} \cup {ThreadSlot(u) : u \in Threads}
      [] OTHER -> {}

x11_errno_location(cs, t, oldhook) ==
    IF cs.OwningThread = t THEN {StaticSlot}
    ELSE CallLocationHook(oldhook, cs, t)

x11_h_errno_location(cs, t, oldhook) ==
    IF cs.OwningThread = t THEN {StaticSlot}
    ELSE CallLocationHook(oldhook, cs, t)

\* A read of errno (which = "errno") or h_errno (which = "h_errno") by
\* thread t goes through the global hook.
ReadLocation(which, hk, od, cs, t) ==
    CASE hk[which] = "x11_errno_location" -> x11_errno_location(cs, t, od[which])
      [] hk[which] = "x11_h_errno_location" -> x11_h_errno_location(cs, t, od[which])
      [] OTHER -> CallLocationHook(hk[which], cs, t)

\* ------------------------------------------------- setup_options
Addresses == {"A:0", "B:0"}
Geometries == {"800x600"}

IS_OPTION_TRUE(s) == s \in {"y", "Y", "t", "T", "1"}
IS_OPTION_FALSE(s) == s \in {"n", "N", "f", "F", "0"}

\* The --display part (lines 147-172): the registry value wins; without
\* one the option, then $DISPLAY, is used and written to the registry.
\* A caller that lets the option or $DISPLAY replace the registry value.
SetupDisplay_callerwins(opts, reg, env) ==
    LET given == IF opts.display # NULL THEN opts.display ELSE env
    IN  IF given = NULL /\ reg.display = NULL
        THEN [display |-> NULL, registry |-> reg,
              messages |-> <<"no display specified">>, exit |-> "1"]
        ELSE IF given = NULL
        THEN [display |-> reg.display, registry |-> reg, messages |-> <<>>, exit |-> NULL]
        ELSE [display |-> given, registry |-> [reg EXCEPT !.display = given],
              messages |-> <<>>, exit |-> NULL]

SetupDisplay(opts, reg, env) ==
    IF reg.display # NULL
    THEN [display  |-> reg.display,
          registry |-> reg,
          messages |->
              IF opts.display # NULL
              THEN IF reg.display # opts.display
                   THEN <<"warning: --display option ignored">> ELSE <<>>
              ELSE IF env # NULL /\ reg.display # env
                   THEN <<"warning: $DISPLAY variable ignored">> ELSE <<>>,
          exit     |-> NULL]
    ELSE LET given == IF opts.display # NULL THEN opts.display ELSE env
         IN  IF given = NULL
             THEN [display |-> NULL, registry |-> reg,
                   messages |-> <<"no display specified">>, exit |-> "1"]
             ELSE [display  |-> given,
                   registry |-> [reg EXCEPT !.display = given],
                   messages |-> <<>>,
                   exit     |-> NULL]

\* A setup_options that loads each of the two fields on its own.
SetupManagedDesktop_independent(opts, reg) ==
    LET managed == IF (~opts.managed) /\ reg.managed # NULL
                   THEN IS_OPTION_TRUE(reg.managed) ELSE opts.managed
        desktop == IF opts.desktopGeometry = NULL /\ reg.desktop # NULL
                      /\ ~IS_OPTION_FALSE(reg.desktop)
                   THEN reg.desktop ELSE opts.desktopGeometry
    IN  [managed  |-> managed,
         desktopGeometry |-> desktop,
         registry |-> [reg EXCEPT !.managed = IF managed THEN "y" ELSE @,
                                  !.desktop = IF desktop # NULL THEN desktop ELSE @]]

\* The --managed / --desktop part (lines 174-196).
SetupManagedDesktop(opts, reg) ==
    LET fromReg == (~opts.managed) /\ opts.desktopGeometry = NULL
        managed == IF fromReg /\ reg.managed # NULL
                   THEN IS_OPTION_TRUE(reg.managed) ELSE opts.managed
        desktop == IF fromReg /\ reg.desktop # NULL /\ ~IS_OPTION_FALSE(reg.desktop)
                   THEN reg.desktop ELSE opts.desktopGeometry
    IN  [managed  |-> managed,
         desktopGeometry |-> desktop,
         registry |-> [reg EXCEPT !.managed = IF managed THEN "y" ELSE @,
                                  !.desktop = IF desktop # NULL THEN desktop ELSE @]]

\* setup_options: the resulting Options and registry, the messages printed,
\* and the ExitProcess status (NULL when it returns).
setup_options(opts, reg, env, createFails) ==
    IF createFails
    THEN [Options |-> opts, registry |-> reg,
          messages |-> <<"Cannot create config registry key">>, exit |-> "1"]
    ELSE LET d == SetupDisplay(opts, reg, env)
             m == SetupManagedDesktop(opts, d.registry)
         IN  IF d.exit # NULL
             THEN [Options  |-> [opts EXCEPT !.display = d.display],
                   registry |-> d.registry, messages |-> d.messages, exit |-> d.exit]
             ELSE [Options  |-> [display |-> d.display, managed |-> m.managed,
                                 desktopGeometry |-> m.desktopGeometry],
                   registry |-> m.registry, messages |-> d.messages, exit |-> NULL]

\* ------------------------------------------------- the statements
\* Builds: NO_REENTRANT_X11 alone, and the optional libraries together.
Builds == {[NO_REENTRANT_X11 |-> r, HAVE_OPENGL |-> o, HAVE_LIBXXF86VM |-> o] :
           r \in BOOLEAN, o \in BOOLEAN}

\* create_desktop, statement by statement; a TSX statement is one call of
\* the wrapper of an Xlib function.
create_desktop(b) ==
    (IF b.HAVE_OPENGL
     THEN <<"glXQueryExtension", "ENTER_GL", "glXChooseVisual", "XCreateColormap", "LEAVE_GL">>
     ELSE <<>>) \o
    <<"TSXParseGeometry", "TSXCreateFontCursor", "TSXCreateWindow",
      "TSXAllocSizeHints", "TSXAllocWMHints", "TSXAllocClassHint", "check_hints",
      "TSXStringListToTextProperty", "TSXSetWMProperties", "TSXInternAtom",
      "TSXSetWMProtocols", "TSXFree_size_hints", "TSXFree_wm_hints",
      "TSXFree_class_hints", "TSXMapWindow">>

InstallShim(b) ==
    (IF b.NO_REENTRANT_X11
     THEN <<"xchg_errno_location", "set_old_errno_location",
            "xchg_h_errno_location", "set_old_h_errno_location">>
     ELSE <<>>) \o <<"install_tsx11_hooks">>

\* An attach that opens the display before it installs the hooks.
process_attach_openfirst(b) ==
    <<"get_server_startup", "setup_options", "TSXOpenDisplay">> \o InstallShim(b) \o
    <<"get_ScreenDepth", "TSXListDepths", "TSXFree_depth_list", "check_depth",
      "TSXOpenIM", "XSetErrorHandler", "screen_size", "if_desktopGeometry">> \o
    create_desktop(b) \o
    <<"X11DRV_GDI_Initialize", "TSXGetKeyboardControl", "X11DRV_EVENT_Init">> \o
    (IF b.HAVE_LIBXXF86VM THEN <<"X11DRV_XF86VM_Init">> ELSE <<>>) \o
    <<"LoadLibrary16", "return">>

\* An attach that initialises event handling before it saves the keyboard.
process_attach_eventfirst(b) ==
    <<"get_server_startup", "setup_options">> \o InstallShim(b) \o
    <<"TSXOpenDisplay",
      "get_ScreenDepth", "TSXListDepths", "TSXFree_depth_list", "check_depth",
      "TSXOpenIM", "XSetErrorHandler", "screen_size", "if_desktopGeometry">> \o
    create_desktop(b) \o
    <<"X11DRV_GDI_Initialize", "X11DRV_EVENT_Init", "TSXGetKeyboardControl">> \o
    (IF b.HAVE_LIBXXF86VM THEN <<"X11DRV_XF86VM_Init">> ELSE <<>>) \o
    <<"LoadLibrary16", "return">>

\* An attach that installs the hooks before anything else.
process_attach_shimfirst(b) ==
    InstallShim(b) \o
    <<"get_server_startup", "setup_options", "TSXOpenDisplay",
      "get_ScreenDepth", "TSXListDepths", "TSXFree_depth_list", "check_depth",
      "TSXOpenIM", "XSetErrorHandler", "screen_size", "if_desktopGeometry">> \o
    create_desktop(b) \o
    <<"X11DRV_GDI_Initialize", "TSXGetKeyboardControl", "X11DRV_EVENT_Init">> \o
    (IF b.HAVE_LIBXXF86VM THEN <<"X11DRV_XF86VM_Init">> ELSE <<>>) \o
    <<"LoadLibrary16", "return">>

process_attach(b) ==
    <<"get_server_startup", "setup_options">> \o InstallShim(b) \o
    <<"TSXOpenDisplay",
      "get_ScreenDepth", "TSXListDepths", "TSXFree_depth_list", "check_depth",
      "TSXOpenIM", "XSetErrorHandler", "screen_size", "if_desktopGeometry">> \o
    create_desktop(b) \o
    <<"X11DRV_GDI_Initialize", "TSXGetKeyboardControl", "X11DRV_EVENT_Init">> \o
    (IF b.HAVE_LIBXXF86VM THEN <<"X11DRV_XF86VM_Init">> ELSE <<>>) \o
    <<"LoadLibrary16", "return">>

\* A detach that puts the hooks back before it cleans up.
process_detach_hooksfirst(b) ==
    <<"restore_tsx11_hooks">> \o
    (IF b.NO_REENTRANT_X11 THEN <<"restore_errno_hooks">> ELSE <<>>) \o
    <<"XChangeKeyboardControl">> \o
    (IF b.HAVE_LIBXXF86VM THEN <<"X11DRV_XF86VM_Cleanup">> ELSE <<>>) \o
    <<"X11DRV_GDI_Finalize", "return">>

\* A detach that forgets the errno hooks of the non-reentrant build.
process_detach_noerrno(b) ==
    <<"XChangeKeyboardControl">> \o
    (IF b.HAVE_LIBXXF86VM THEN <<"X11DRV_XF86VM_Cleanup">> ELSE <<>>) \o
    <<"X11DRV_GDI_Finalize", "restore_tsx11_hooks", "return">>

process_detach(b) ==
    <<"XChangeKeyboardControl">> \o
    (IF b.HAVE_LIBXXF86VM THEN <<"X11DRV_XF86VM_Cleanup">> ELSE <<>>) \o
    <<"X11DRV_GDI_Finalize", "restore_tsx11_hooks">> \o
    (IF b.NO_REENTRANT_X11 THEN <<"restore_errno_hooks">> ELSE <<>>) \o
    <<"return">>

\* The function the loading thread runs, and its next statement.
Code == CASE phase = "Attaching" -> process_attach(build)
          [] phase = "Detaching" -> process_detach(build)
          [] OTHER -> <<>>

Running == exit_status = NULL
Stmt == IF Running /\ mpc \in 1..Len(Code) THEN Code[mpc] ELSE NULL

\* The index of statement s in the running function (0 when absent).
IndexOf(s) ==
    IF \E i \in 1..Len(Code) : Code[i] = s
    THEN CHOOSE i \in 1..Len(Code) : Code[i] = s
    ELSE 0

\* Statements that call an Xlib function through its TSX wrapper
\* (wine_tsx11_lock(); the call; wine_tsx11_unlock()).
TSXStatements ==
    {"TSXOpenDisplay", "TSXListDepths", "TSXFree_depth_list", "TSXOpenIM",
     "TSXParseGeometry", "TSXCreateFontCursor", "TSXCreateWindow",
     "TSXAllocSizeHints", "TSXAllocWMHints", "TSXAllocClassHint",
     "TSXStringListToTextProperty", "TSXSetWMProperties", "TSXInternAtom",
     "TSXSetWMProtocols", "TSXFree_size_hints", "TSXFree_wm_hints",
     "TSXFree_class_hints", "TSXMapWindow", "TSXGetKeyboardControl"}

\* TSX statements whose call changes nothing the driver keeps.
PlainTSXStatements ==
    {"TSXFree_depth_list", "TSXOpenIM", "TSXParseGeometry", "TSXCreateFontCursor",
     "TSXStringListToTextProperty", "TSXSetWMProperties", "TSXInternAtom",
     "TSXSetWMProtocols"}

\* Statements that call an Xlib / GLX function with no wrapper.
DirectStatements ==
    {"XSetErrorHandler", "XChangeKeyboardControl", "glXQueryExtension",
     "glXChooseVisual", "XCreateColormap"}

LibraryStatements == TSXStatements \cup DirectStatements

\* ------------------------------------------------- the initial state
\* The X server's screen: the depths it lists and its default depth.
XScreen == [depths |-> <<8, 24>>, default_depth |-> 24]
GLXVisual == [depth |-> 24]     \* the visual glXChooseVisual returns
RequestedDepths == {0, 8, 16}   \* ScreenDepth values of the configuration file

\* Keyboard settings: key click, bell percent, pitch, duration, auto repeat.
KeyboardSettings ==
    {[key_click_percent |-> 0, bell_percent |-> 50, bell_pitch |-> 400,
      bell_duration |-> 100, global_auto_repeat |-> 1],
     [key_click_percent |-> 10, bell_percent |-> 0, bell_pitch |-> 440,
      bell_duration |-> 50, global_auto_repeat |-> 0]}
ZeroKeyboard ==
    [key_click_percent |-> 0, bell_percent |-> 0, bell_pitch |-> 0,
     bell_duration |-> 0, global_auto_repeat |-> 0]

NoLocals == [tmp |-> NULL, vi |-> NULL, i |-> 0, depth_count |-> 0]
NoRead == [held |-> FALSE, got |-> "nothing"]
NoScreenSaver == [called |-> FALSE, nTimeout |-> 0, timeout |-> 0]

InitWith(optDisplays, envDisplays, regDisplays, regManaged, regDesktop) ==
    /\ build \in Builds
    /\ phase = "Unattached"
    /\ mpc = 0
    /\ xcall = NULL
    /\ Options \in [display : optDisplays, managed : BOOLEAN,
                     desktopGeometry : {NULL} \cup Geometries]
    /\ env_DISPLAY \in envDisplays
    /\ registry \in [display : regDisplays, managed : regManaged, desktop : regDesktop]
    /\ wine_ini \in [ScreenDepth : RequestedDepths]
    /\ messages = <<>>
    /\ exit_status = NULL
    /\ hooks = [lock |-> "nop_lock", unlock |-> "nop_unlock",
                errno |-> "libc_errno_location", h_errno |-> "libc_h_errno_location"]
    /\ old = [lock |-> NULL, unlock |-> NULL, errno |-> NULL, h_errno |-> NULL]
    /\ X11DRV_CritSection = [OwningThread |-> NoThread, RecursionCount |-> 0]
    /\ display = NULL
    /\ visual = NULL
    /\ screen_depth = 0
    /\ root_window = NULL
    /\ window = "none"
    /\ hints = [size |-> "unset", wm |-> "unset", class |-> "unset"]
    /\ local = NoLocals
    /\ keyboard_state = ZeroKeyboard
    /\ server_keyboard = CHOOSE k \in KeyboardSettings : k.global_auto_repeat = 1
    /\ log = <<>>
    /\ wpc = [t \in Workers |-> "out"]
    /\ nest = [t \in Threads |-> 0]
    /\ screen_saver = NoScreenSaver
    /\ lastRead = NoRead

Init ==
    InitWith({NULL, "A:0"}, {NULL}, {NULL, "B:0"}, {NULL, "y"}, {NULL, "800x600"})

\* ------------------------------------------------- helpers of the actions
\* What attach, detach and the TSX wrappers leave alone.
cfgVars == <<build, env_DISPLAY, wine_ini, screen_saver>>
optVars == <<Options, registry, messages>>
hookVars == <<hooks, old>>
xVars == <<display, visual, screen_depth, root_window, window, hints, keyboard_state,
           server_keyboard>>
workerVars == <<wpc, lastRead>>

Logged(e) == log' = Append(log, e)
Goto(s) == mpc' = IndexOf(s)
Advance == mpc' = mpc + 1

\* The loading thread calls the lock hook / the unlock hook.
Acquire(t) ==
    \E cs \in CallLockHook(hooks.lock, X11DRV_CritSection, t) :
        /\ X11DRV_CritSection' = cs
        /\ nest' = [nest EXCEPT ![t] = IF hooks.lock = "lock_tsx11" THEN @ + 1 ELSE @]

Release(t) ==
    \E cs \in CallUnlockHook(hooks.unlock, X11DRV_CritSection, t) :
        /\ X11DRV_CritSection' = cs
        /\ nest' = [nest EXCEPT ![t] = IF hooks.unlock = "unlock_tsx11" THEN @ - 1 ELSE @]

ExitProcess(status) == exit_status' = status /\ UNCHANGED <<phase, mpc>>
Message(m) == messages' = Append(messages, m)
Fatal(m) == Message(m) /\ ExitProcess("1")

\* ------------------------------------------------- process_attach
X11DRV_Init_attach ==
    /\ Running /\ phase = "Unattached"
    /\ phase' = "Attaching" /\ mpc' = 1
    /\ UNCHANGED <<xcall, exit_status, X11DRV_CritSection, local, log, nest,
                   cfgVars, optVars, hookVars, xVars, workerVars>>

get_server_startup ==
    /\ Stmt = "get_server_startup"
    /\ Advance /\ Logged("get_server_startup")
    /\ UNCHANGED <<phase, xcall, exit_status, X11DRV_CritSection, local, nest,
                   cfgVars, optVars, hookVars, xVars, workerVars>>

SetupOptions ==
    /\ Stmt = "setup_options"
    /\ \E createFails \in BOOLEAN :
        LET r == setup_options(Options, registry, env_DISPLAY, createFails)
        IN  /\ Options' = r.Options
            /\ registry' = r.registry
            /\ messages' = messages \o r.messages
            /\ exit_status' = r.exit
            /\ mpc' = IF r.exit = NULL THEN mpc + 1 ELSE mpc
    /\ Logged("setup_options")
    /\ UNCHANGED <<phase, xcall, X11DRV_CritSection, local, nest,
                   cfgVars, hookVars, xVars, workerVars>>

Locations == {"errno", "h_errno"}
X11Hook(which) ==
    IF which = "errno" THEN "x11_errno_location" ELSE "x11_h_errno_location"
XchgStmt(which) ==
    IF which = "errno" THEN "xchg_errno_location" ELSE "xchg_h_errno_location"
SetOldStmt(which) ==
    IF which = "errno" THEN "set_old_errno_location" ELSE "set_old_h_errno_location"

\* old_..._location = InterlockedExchange( &wine_..._location, x11_..._location ):
\* the exchange publishes the new hook; the assignment to old_..._location
\* is a later store.
XchgLocation(which) ==
    /\ Stmt = XchgStmt(which)
    /\ local' = [local EXCEPT !.tmp = hooks[which]]
    /\ hooks' = [hooks EXCEPT ![which] = X11Hook(which)]
    /\ Advance /\ Logged(Stmt)
    /\ UNCHANGED <<phase, xcall, exit_status, X11DRV_CritSection, nest, old,
                   cfgVars, optVars, xVars, workerVars>>

SetOldLocation(which) ==
    /\ Stmt = SetOldStmt(which)
    /\ old' = [old EXCEPT ![which] = local.tmp]
    /\ local' = [local EXCEPT !.tmp = NULL]
    /\ Advance /\ Logged(Stmt)
    /\ UNCHANGED <<phase, xcall, exit_status, X11DRV_CritSection, nest, hooks,
                   cfgVars, optVars, xVars, workerVars>>

install_tsx11_hooks ==
    /\ Stmt = "install_tsx11_hooks"
    /\ old' = [old EXCEPT !.lock = hooks.lock, !.unlock = hooks.unlock]
    /\ hooks' = [hooks EXCEPT !.lock = "lock_tsx11", !.unlock = "unlock_tsx11"]
    /\ Advance /\ Logged("install_tsx11_hooks")
    /\ UNCHANGED <<phase, xcall, exit_status, X11DRV_CritSection, local, nest,
                   cfgVars, optVars, xVars, workerVars>>

\* A TSX wrapper: take the lock hook, then run the Xlib function.  Before
\* TSXCreateWindow the visual chosen by glXChooseVisual replaces the depth.
TSXCall ==
    /\ Stmt \in TSXStatements /\ xcall = NULL
    /\ Acquire(MainThread)
    /\ xcall' = Stmt
    /\ IF Stmt = "TSXCreateWindow" /\ local.vi # NULL
       THEN visual' = "vi->visual" /\ screen_depth' = GLXVisual.depth
       ELSE UNCHANGED <<visual, screen_depth>>
    /\ Logged(Stmt)
    /\ UNCHANGED <<phase, mpc, exit_status, local, cfgVars, optVars, hookVars,
                   display, root_window, window, hints, keyboard_state,
                   server_keyboard, workerVars>>

\* The Xlib function returns and the wrapper calls the unlock hook.
TSXReturnPlain ==
    /\ xcall \in PlainTSXStatements
    /\ Release(MainThread)
    /\ xcall' = NULL /\ Advance
    /\ UNCHANGED <<phase, exit_status, local, log, cfgVars, optVars, hookVars,
                   xVars, workerVars>>

TSXOpenDisplay ==
    /\ xcall = "TSXOpenDisplay"
    /\ Release(MainThread)
    /\ xcall' = NULL
    /\ \E opened \in BOOLEAN :
        IF opened
        THEN /\ display' = XScreen
             /\ visual' = "DefaultVisual"
             /\ root_window' = "DefaultRootWindow"
             /\ Advance
             /\ UNCHANGED <<phase, exit_status, messages>>
        ELSE /\ Fatal("Can't open display")
             /\ UNCHANGED <<display, visual, root_window>>
    /\ UNCHANGED <<local, log, cfgVars, Options, registry, hookVars, screen_depth, window,
                   hints, keyboard_state, server_keyboard, workerVars>>

\* The loop of lines 342-343: the first index whose depth is d, else the count.
FindDepth(list, d) ==
    IF \E k \in 1..Len(list) : list[k] = d
    THEN (CHOOSE k \in 1..Len(list) :
              list[k] = d /\ \A j \in 1..(k - 1) : list[j] # d) - 1
    ELSE Len(list)

\* A depth check that lets every depth through.
DepthSupported_any(i, depth_count) == TRUE

DepthSupported(i, depth_count) == ~(i >= depth_count)

get_ScreenDepth ==
    /\ Stmt = "get_ScreenDepth"
    /\ IF wine_ini.ScreenDepth # 0
       THEN screen_depth' = wine_ini.ScreenDepth /\ Advance
       ELSE screen_depth' = display.default_depth /\ Goto("TSXOpenIM")
    /\ Logged("get_ScreenDepth")
    /\ UNCHANGED <<phase, xcall, exit_status, X11DRV_CritSection, local, nest,
                   cfgVars, optVars, hookVars, display, visual, root_window, window, hints,
                   keyboard_state, server_keyboard, workerVars>>

TSXListDepths ==
    /\ xcall = "TSXListDepths"
    /\ Release(MainThread)
    /\ xcall' = NULL /\ Advance
    /\ local' = [local EXCEPT !.i = FindDepth(display.depths, screen_depth),
                              !.depth_count = Len(display.depths)]
    /\ UNCHANGED <<phase, exit_status, log, cfgVars, optVars, hookVars, xVars,
                   workerVars>>

check_depth ==
    /\ Stmt = "check_depth"
    /\ IF DepthSupported(local.i, local.depth_count)
       THEN Advance /\ UNCHANGED <<phase, exit_status, messages>>
       ELSE Fatal("Depth not supported on this screen")
    /\ local' = [local EXCEPT !.i = 0, !.depth_count = 0]
    /\ UNCHANGED <<xcall, X11DRV_CritSection, log, nest, cfgVars, Options, registry,
                   hookVars, xVars, workerVars>>

\* if (Options.synchronous) XSetErrorHandler( error_handler ): called directly.
XSetErrorHandler ==
    /\ Stmt = "XSetErrorHandler" /\ xcall = NULL
    /\ \E synchronous \in BOOLEAN :
        IF synchronous
        THEN xcall' = Stmt /\ Logged(Stmt) /\ UNCHANGED mpc
        ELSE Advance /\ UNCHANGED <<xcall, log>>
    /\ UNCHANGED <<phase, exit_status, X11DRV_CritSection, local, nest, cfgVars,
                   optVars, hookVars, xVars, workerVars>>

DirectReturnPlain ==
    /\ xcall \in {"XSetErrorHandler", "XCreateColormap"}
    /\ xcall' = NULL /\ Advance
    /\ UNCHANGED <<phase, exit_status, X11DRV_CritSection, local, log, nest,
                   cfgVars, optVars, hookVars, xVars, workerVars>>

screen_size ==
    /\ Stmt = "screen_size"
    /\ Advance /\ Logged("screen_size")
    /\ UNCHANGED <<phase, xcall, exit_status, X11DRV_CritSection, local, nest,
                   cfgVars, optVars, hookVars, xVars, workerVars>>

\* A desktop branch that leaves Options.managed as it is.
if_desktopGeometry_keepmanaged ==
    /\ Stmt = "if_desktopGeometry"
    /\ IF Options.desktopGeometry # NULL
       THEN Advance /\ Logged("create_desktop")
       ELSE Goto("X11DRV_GDI_Initialize") /\ UNCHANGED log
    /\ UNCHANGED <<phase, xcall, exit_status, X11DRV_CritSection, local, nest,
                   cfgVars, optVars, hookVars, xVars, workerVars>>

if_desktopGeometry ==
    /\ Stmt = "if_desktopGeometry"
    /\ IF Options.desktopGeometry # NULL
       THEN /\ Options' = [Options EXCEPT !.managed = FALSE]
            /\ Advance /\ Logged("create_desktop")
       ELSE /\ Goto("X11DRV_GDI_Initialize")
            /\ UNCHANGED <<Options, log>>
    /\ UNCHANGED <<phase, xcall, exit_status, X11DRV_CritSection, local, nest,
                   cfgVars, registry, messages, hookVars, xVars, workerVars>>

\* ------------------------------------------------- create_desktop
\* glXQueryExtension is called directly; the double-buffered visual is
\* looked for only when GLX is there and DesktopDoubleBuffered is set.
glXQueryExtension ==
    /\ Stmt = "glXQueryExtension"
    /\ IF xcall = NULL
       THEN xcall' = Stmt /\ Logged(Stmt) /\ UNCHANGED mpc
       ELSE /\ xcall' = NULL /\ UNCHANGED log
            /\ \E supported \in BOOLEAN, dblbuf_visual \in BOOLEAN :
                IF supported /\ dblbuf_visual THEN Advance ELSE Goto("TSXParseGeometry")
    /\ UNCHANGED <<phase, exit_status, X11DRV_CritSection, local, nest, cfgVars,
                   optVars, hookVars, xVars, workerVars>>

ENTER_GL ==
    /\ Stmt = "ENTER_GL"
    /\ Acquire(MainThread)
    /\ Advance
    /\ UNCHANGED <<phase, xcall, exit_status, local, log, cfgVars, optVars,
                   hookVars, xVars, workerVars>>

LEAVE_GL ==
    /\ Stmt = "LEAVE_GL"
    /\ Release(MainThread)
    /\ Advance
    /\ UNCHANGED <<phase, xcall, exit_status, local, log, cfgVars, optVars,
                   hookVars, xVars, workerVars>>

glXChooseVisual ==
    /\ Stmt = "glXChooseVisual"
    /\ IF xcall = NULL
       THEN xcall' = Stmt /\ Logged(Stmt) /\ UNCHANGED <<mpc, local>>
       ELSE /\ xcall' = NULL /\ Advance /\ UNCHANGED log
            /\ \E vi \in {NULL, "vi"} : local' = [local EXCEPT !.vi = vi]
    /\ UNCHANGED <<phase, exit_status, X11DRV_CritSection, nest, cfgVars,
                   optVars, hookVars, xVars, workerVars>>

\* XCreateColormap(display, RootWindow(display, vi->screen), ...): vi is
\* dereferenced unchecked.
XCreateColormap ==
    /\ Stmt = "XCreateColormap" /\ xcall = NULL
    /\ IF local.vi = NULL
       THEN ExitProcess("SIGSEGV") /\ UNCHANGED <<xcall, log>>
       ELSE xcall' = Stmt /\ Logged(Stmt) /\ UNCHANGED <<phase, mpc, exit_status>>
    /\ UNCHANGED <<X11DRV_CritSection, local, nest, cfgVars, optVars, hookVars,
                   xVars, workerVars>>

TSXCreateWindow ==
    /\ xcall = "TSXCreateWindow"
    /\ Release(MainThread)
    /\ xcall' = NULL /\ Advance
    /\ root_window' = "desktop" /\ window' = "created"
    /\ UNCHANGED <<phase, exit_status, local, log, cfgVars, optVars, hookVars,
                   display, visual, screen_depth, hints, keyboard_state, server_keyboard,
                   workerVars>>

HintOf(s) ==
    CASE s \in {"TSXAllocSizeHints", "TSXFree_size_hints"} -> "size"
      [] s \in {"TSXAllocWMHints", "TSXFree_wm_hints"} -> "wm"
      [] OTHER -> "class"

TSXAllocHints ==
    /\ xcall \in {"TSXAllocSizeHints", "TSXAllocWMHints", "TSXAllocClassHint"}
    /\ Release(MainThread)
    /\ xcall' = NULL /\ Advance
    /\ \E got \in {"allocated", NULL} : hints' = [hints EXCEPT ![HintOf(xcall)] = got]
    /\ UNCHANGED <<phase, exit_status, local, log, cfgVars, optVars, hookVars,
                   display, visual, screen_depth, root_window, window, keyboard_state,
                   server_keyboard, workerVars>>

check_hints ==
    /\ Stmt = "check_hints"
    /\ IF hints.size = NULL \/ hints.wm = NULL \/ hints.class = NULL
       THEN Fatal("Not enough memory for window manager hints")
       ELSE Advance /\ UNCHANGED <<phase, exit_status, messages>>
    /\ UNCHANGED <<xcall, X11DRV_CritSection, local, log, nest, cfgVars, Options, registry,
                   hookVars, xVars, workerVars>>

TSXFreeHints ==
    /\ xcall \in {"TSXFree_size_hints", "TSXFree_wm_hints", "TSXFree_class_hints"}
    /\ Release(MainThread)
    /\ xcall' = NULL /\ Advance
    /\ hints' = [hints EXCEPT ![HintOf(xcall)] = "freed"]
    /\ UNCHANGED <<phase, exit_status, local, log, cfgVars, optVars, hookVars,
                   display, visual, screen_depth, root_window, window, keyboard_state,
                   server_keyboard, workerVars>>

TSXMapWindow ==
    /\ xcall = "TSXMapWindow"
    /\ Release(MainThread)
    /\ xcall' = NULL /\ Advance
    /\ window' = "mapped"
    /\ local' = NoLocals
    /\ UNCHANGED <<phase, exit_status, log, cfgVars, optVars, hookVars, display, visual,
                   screen_depth, root_window, hints, keyboard_state,
                   server_keyboard, workerVars>>

\* ------------------------------------------------- the rest of process_attach
X11DRV_GDI_Initialize ==
    /\ Stmt = "X11DRV_GDI_Initialize"
    /\ \E ok \in BOOLEAN :
        IF ok THEN Advance /\ UNCHANGED <<phase, exit_status, messages>>
        ELSE Fatal("X11DRV Couldn't Initialize GDI")
    /\ Logged("X11DRV_GDI_Initialize")
    /\ UNCHANGED <<xcall, X11DRV_CritSection, local, nest, cfgVars, Options, registry,
                   hookVars, xVars, workerVars>>

TSXGetKeyboardControl ==
    /\ xcall = "TSXGetKeyboardControl"
    /\ Release(MainThread)
    /\ xcall' = NULL /\ Advance
    /\ keyboard_state' = server_keyboard
    /\ UNCHANGED <<phase, exit_status, local, log, cfgVars, optVars, hookVars,
                   display, visual, screen_depth, root_window, window, hints,
                   server_keyboard, workerVars>>

\* Calls into the other parts of the driver and of Wine.
ExternalStatements ==
    {"X11DRV_EVENT_Init", "X11DRV_XF86VM_Init", "LoadLibrary16",
     "X11DRV_XF86VM_Cleanup", "X11DRV_GDI_Finalize"}

External ==
    /\ Stmt \in ExternalStatements
    /\ Advance /\ Logged(Stmt)
    /\ UNCHANGED <<phase, xcall, exit_status, X11DRV_CritSection, local, nest,
                   cfgVars, optVars, hookVars, xVars, workerVars>>

attach_return ==
    /\ phase = "Attaching" /\ Stmt = "return"
    /\ phase' = "Ready" /\ mpc' = 0
    /\ UNCHANGED <<xcall, exit_status, X11DRV_CritSection, local, log, nest,
                   cfgVars, optVars, hookVars, xVars, workerVars>>

\* ------------------------------------------------- process_detach
\* The host unloads the driver when no other thread is using it.
X11DRV_Init_detach ==
    /\ Running /\ phase = "Ready"
    /\ \A w \in Workers : wpc[w] = "out"
    /\ phase' = "Detaching" /\ mpc' = 1
    /\ UNCHANGED <<xcall, exit_status, X11DRV_CritSection, local, log, nest,
                   cfgVars, optVars, hookVars, xVars, workerVars>>

\* A restore that mixes up the bell's pitch and duration.
RestoredKeyboard_swapped(ks) ==
    [key_click_percent |-> ks.key_click_percent,
     bell_percent |-> ks.bell_percent,
     bell_pitch |-> ks.bell_duration,
     bell_duration |-> ks.bell_pitch,
     global_auto_repeat |-> ks.global_auto_repeat]

\* The values process_detach copies from keyboard_state (lines 404-408).
RestoredKeyboard(ks) ==
    [key_click_percent |-> ks.key_click_percent,
     bell_percent |-> ks.bell_percent,
     bell_pitch |-> ks.bell_pitch,
     bell_duration |-> ks.bell_duration,
     global_auto_repeat |-> ks.global_auto_repeat]

\* XChangeKeyboardControl is called directly.
XChangeKeyboardControl ==
    /\ Stmt = "XChangeKeyboardControl"
    /\ IF xcall = NULL
       THEN xcall' = Stmt /\ Logged(Stmt) /\ UNCHANGED <<mpc, server_keyboard>>
       ELSE /\ xcall' = NULL /\ Advance /\ UNCHANGED log
            /\ server_keyboard' = RestoredKeyboard(keyboard_state)
    /\ UNCHANGED <<phase, exit_status, X11DRV_CritSection, local, nest, cfgVars,
                   optVars, hookVars, display, visual, screen_depth, root_window, window,
                   hints, keyboard_state, workerVars>>

restore_tsx11_hooks ==
    /\ Stmt = "restore_tsx11_hooks"
    /\ hooks' = [hooks EXCEPT !.lock = old.lock, !.unlock = old.unlock]
    /\ Advance /\ Logged("restore_tsx11_hooks")
    /\ UNCHANGED <<phase, xcall, exit_status, X11DRV_CritSection, local, nest,
                   old, cfgVars, optVars, xVars, workerVars>>

restore_errno_hooks ==
    /\ Stmt = "restore_errno_hooks"
    /\ hooks' = [hooks EXCEPT !.errno = old.errno, !.h_errno = old.h_errno]
    /\ Advance /\ Logged("restore_errno_hooks")
    /\ UNCHANGED <<phase, xcall, exit_status, X11DRV_CritSection, local, nest,
                   old, cfgVars, optVars, xVars, workerVars>>

detach_return ==
    /\ phase = "Detaching" /\ Stmt = "return"
    /\ phase' = "Detached" /\ mpc' = 0
    /\ UNCHANGED <<xcall, exit_status, X11DRV_CritSection, local, log, nest,
                   cfgVars, optVars, hookVars, xVars, workerVars>>

\* ------------------------------------------------- the host's threads
\* A thread enters a TSX wrapper, from outside or from a callback that the
\* Xlib function it is in runs.
WorkerEnter(w) ==
    /\ Running /\ phase = "Ready"
    /\ wpc[w] \in {"out", "lib"} /\ nest[w] < MaxNest
    /\ wpc' = [wpc EXCEPT ![w] = "lock"]
    /\ UNCHANGED <<phase, mpc, xcall, exit_status, X11DRV_CritSection, local, log,
                   nest, lastRead, cfgVars, optVars, hookVars, xVars>>

\* wine_tsx11_lock() returns: the thread is inside the Xlib function.
WorkerLock(w) ==
    /\ Running /\ wpc[w] = "lock"
    /\ Acquire(w)
    /\ wpc' = [wpc EXCEPT ![w] = "lib"]
    /\ UNCHANGED <<phase, mpc, xcall, exit_status, local, log, lastRead, cfgVars,
                   optVars, hookVars, xVars>>

\* The Xlib function returns; wine_tsx11_unlock() is next.
WorkerReturn(w) ==
    /\ Running /\ wpc[w] = "lib"
    /\ wpc' = [wpc EXCEPT ![w] = "unlock"]
    /\ UNCHANGED <<phase, mpc, xcall, exit_status, X11DRV_CritSection, local, log,
                   nest, lastRead, cfgVars, optVars, hookVars, xVars>>

\* wine_tsx11_unlock(): back in the caller, which is the Xlib function of
\* the outer wrapper when this one was entered from a callback.
WorkerUnlock(w) ==
    /\ Running /\ wpc[w] = "unlock"
    /\ Release(w)
    /\ wpc' = [wpc EXCEPT ![w] = IF nest'[w] > 0 THEN "lib" ELSE "out"]
    /\ UNCHANGED <<phase, mpc, xcall, exit_status, local, log, lastRead, cfgVars,
                   optVars, hookVars, xVars>>

\* What a location is to the thread that got it.
Classify(loc, t) ==
    CASE loc = StaticSlot -> "static"
      [] loc = Fault -> "fault"
      [] loc = ThreadSlot(t) -> "own"
      [] OTHER -> "other"

\* Any thread reads errno or h_errno, at any time.
ErrnoRead(t, which) ==
    /\ Running
    /\ \E loc \in ReadLocation(which, hooks, old, X11DRV_CritSection, t) :
        /\ lastRead' = [held |-> X11DRV_CritSection.OwningThread = t,
                        got |-> Classify(loc, t)]
        /\ exit_status' = IF loc = Fault THEN "SIGSEGV" ELSE exit_status
    /\ UNCHANGED <<phase, mpc, xcall, X11DRV_CritSection, local, log, nest, wpc,
                   cfgVars, optVars, hookVars, xVars>>

\* ------------------------------------------------- the specification
MainNext ==
    \/ X11DRV_Init_attach \/ get_server_startup \/ SetupOptions
    \/ \E which \in Locations : XchgLocation(which) \/ SetOldLocation(which)
    \/ install_tsx11_hooks
    \/ TSXCall \/ TSXReturnPlain \/ TSXOpenDisplay
    \/ get_ScreenDepth \/ TSXListDepths \/ check_depth
    \/ XSetErrorHandler \/ DirectReturnPlain \/ screen_size \/ if_desktopGeometry
    \/ glXQueryExtension \/ ENTER_GL \/ glXChooseVisual \/ XCreateColormap \/ LEAVE_GL
    \/ TSXCreateWindow \/ TSXAllocHints \/ check_hints \/ TSXFreeHints \/ TSXMapWindow
    \/ X11DRV_GDI_Initialize \/ TSXGetKeyboardControl \/ External \/ attach_return
    \/ X11DRV_Init_detach \/ XChangeKeyboardControl
    \/ restore_tsx11_hooks \/ restore_errno_hooks \/ detach_return

WorkerNext(w) ==
    WorkerEnter(w) \/ WorkerLock(w) \/ WorkerReturn(w) \/ WorkerUnlock(w)

Next ==
    \/ MainNext
    \/ \E w \in Workers : WorkerNext(w)
    \/ \E t \in Threads, which \in Locations : ErrnoRead(t, which)

Spec == Init /\ [][Next]_vars

\* Attach up to the end of setup_options, over every combination of the
\* option, the environment variable and the registry values.
OptionsInit ==
    InitWith({NULL} \cup Addresses, {NULL} \cup Addresses, {NULL} \cup Addresses,
             {NULL, "y", "n"}, {NULL, "800x600", "n"})

OptionsNext == X11DRV_Init_attach \/ get_server_startup \/ SetupOptions

OptionsSpec == OptionsInit /\ [][OptionsNext]_vars

\* The scheduler runs every thread that can run: a thread that stays able
\* to take a step takes one.
FairInit == InitWith({"A:0"}, {NULL}, {NULL}, {NULL}, {NULL})

FairSpec ==
    FairInit /\ [][Next]_vars /\ \A w \in Workers : WF_vars(WorkerNext(w))

\* ------------------------------------------------- the screen saver
\* int nTimeout: values around the limits of 16 and 32 bits.
Timeouts ==
    {(-2147483647) - 1, -32769, -32768, -1, 0, 1, 600, 32766, 32767, 32768, 65535, 65536,
     2147483647}

\* The timeout X11DRV_SetScreenSaveTimeout passes to TSXSetScreenSaver
\* (lines 500-503).
X11DRV_SetScreenSaveTimeout(nTimeout) ==
    IF nTimeout > 32767 THEN 32767 ELSE nTimeout

\* The loading thread sets the timeout while the driver is ready; the
\* wrapper takes and leaves the section around XSetScreenSaver.
SetScreenSaveTimeout ==
    /\ Running /\ phase = "Ready"
    /\ CallLockHook(hooks.lock, X11DRV_CritSection, MainThread) # {}
    /\ \E nTimeout \in Timeouts :
        screen_saver' = [called |-> TRUE, nTimeout |-> nTimeout,
                         timeout |-> X11DRV_SetScreenSaveTimeout(nTimeout)]
    /\ UNCHANGED <<build, env_DISPLAY, wine_ini, phase, mpc, xcall, exit_status,
                   X11DRV_CritSection, local, log, nest, optVars, hookVars, xVars,
                   workerVars>>

ScreenSaverNext == MainNext \/ SetScreenSaveTimeout

ScreenSaverSpec == FairInit /\ [][ScreenSaverNext]_vars

\* Another client of the X server changes the keyboard settings, at any
\* time before, while or after the driver is loaded.
KeyboardChanged ==
    /\ Running
    /\ \E k \in KeyboardSettings : k # server_keyboard /\ server_keyboard' = k
    /\ UNCHANGED <<phase, mpc, xcall, exit_status, X11DRV_CritSection, local, log, nest,
                   cfgVars, optVars, hookVars, display, visual, screen_depth,
                   root_window, window, hints, keyboard_state, workerVars>>

KeyboardNext == Next \/ KeyboardChanged

KeyboardSpec == FairInit /\ [][KeyboardNext]_vars

\* ------------------------------------------------- properties
Owner == X11DRV_CritSection.OwningThread
InLog(e) == \E i \in 1..Len(log) : log[i] = e
Range(seq) == {seq[i] : i \in 1..Len(seq)}

\* Thread t is executing a function of the client library.
InLibrary(t) == IF t = MainThread THEN xcall # NULL ELSE wpc[t] = "lib"

\* C1: at most one thread is between a lock_tsx11 and its matching
\* unlock_tsx11: no two distinct threads have an unmatched acquire.
C1_OneThreadInside ==
    \A t \in Threads, u \in Threads : (nest[t] > 0 /\ nest[u] > 0) => t = u

\* A thread is inside the library while another waits in the lock hook.
C1_Witness ==
    \E t \in Workers, u \in Workers :
        t # u /\ wpc[t] = "lib" /\ nest[t] > 0 /\ wpc[u] = "lock" /\ nest[u] = 0

\* C2: whenever a thread executes a client-library function, that thread
\* owns the serialization region.
C2_LibraryCallsHoldRegion ==
    \A t \in Threads : InLibrary(t) => Owner = t

\* C3: for each thread, while it has more acquires than releases the region
\* is held by it, as many times as it has unmatched acquires; once every
\* acquire is matched the thread does not hold it, and when no thread has
\* an unmatched acquire the region is unheld and its owner is none.
C3_MatchedPairsRelease ==
    /\ \A t \in Threads :
        /\ (nest[t] > 0 => (Owner = t /\ X11DRV_CritSection.RecursionCount = nest[t]))
        /\ (nest[t] = 0 => Owner # t)
    /\ (\A t \in Threads : nest[t] = 0) =>
           X11DRV_CritSection = [OwningThread |-> NoThread, RecursionCount |-> 0]

\* A thread holds the region as deep as the wrappers nest and is about to
\* release it once.
C3_Witness ==
    \E w \in Workers : nest[w] = MaxNest /\ wpc[w] = "unlock"

\* C4: a lock hook call by the owner returns at once; no step makes a
\* thread the owner while another thread owns the region; and when the
\* region is free while a thread waits in the lock hook, some waiting
\* thread comes to own it.
C4_RecursiveAndBlocking ==
    /\ [](\A w \in Workers :
            (wpc[w] = "lock" /\ Owner = w) =>
                CallLockHook(hooks.lock, X11DRV_CritSection, w) # {})
    /\ [][\A t \in Threads : (Owner \notin {NoThread, t}) => Owner' # t]_vars
    /\ ((Owner = NoThread /\ \E w \in Workers : wpc[w] = "lock")
            ~> (\E w \in Workers : Owner = w))

\* A thread waits in the lock hook while another holds the region twice,
\* and a thread re-enters the lock hook from a callback.
C4_Witness ==
    \E t \in Workers, u \in Workers :
        t # u /\ nest[t] = MaxNest /\ wpc[u] = "lock" /\ nest[u] = 0

\* C5: every read of errno / h_errno gets the static slot exactly when the
\* reader holds the region, and a reader that does not hold it gets the
\* location the previously installed hook returns for it.
C5_StaticSlotIffHolder ==
    lastRead # NoRead =>
        /\ ((lastRead.got = "static") <=> lastRead.held)
        /\ ((~lastRead.held) => lastRead.got = "own")

\* Once old_errno_location / old_h_errno_location is stored, a read through
\* the driver's hook is the static slot for the owner and the thread's own
\* slot for everybody else.
RedirectionOnceSaved ==
    \A t \in Threads, which \in Locations :
        (hooks[which] = X11Hook(which) /\ old[which] # NULL) =>
            ReadLocation(which, hooks, old, X11DRV_CritSection, t)
                = IF Owner = t THEN {StaticSlot} ELSE {ThreadSlot(t)}

\* The stage of attach a logged statement belongs to, in the order of the
\* code; statements of process_detach come after all of them.
ShimStatements ==
    {"xchg_errno_location", "set_old_errno_location", "xchg_h_errno_location",
     "set_old_h_errno_location", "install_tsx11_hooks"}

CodeStage(e) ==
    CASE e = "get_server_startup" -> 1
      [] e = "setup_options" -> 2
      [] e \in ShimStatements -> 3
      [] e = "TSXOpenDisplay" -> 4
      [] e \in {"get_ScreenDepth", "TSXListDepths", "TSXFree_depth_list"} -> 5
      [] e = "TSXOpenIM" -> 6
      [] e = "XSetErrorHandler" -> 7
      [] e = "screen_size" -> 8
      [] e \in {"create_desktop"} \cup Range(create_desktop(build)) -> 9
      [] e = "X11DRV_GDI_Initialize" -> 10
      [] e = "TSXGetKeyboardControl" -> 11
      [] e = "X11DRV_EVENT_Init" -> 12
      [] e = "X11DRV_XF86VM_Init" -> 13
      [] e = "LoadLibrary16" -> 14
      [] OTHER -> 15

\* The stages as the claim orders them: the shim first.
ClaimStage(e) == IF e \in ShimStatements THEN 0 ELSE CodeStage(e)

\* The stages every completed attach has run.
RequiredStages ==
    {"get_server_startup", "setup_options", "install_tsx11_hooks", "TSXOpenDisplay",
     "get_ScreenDepth", "TSXOpenIM", "screen_size", "X11DRV_GDI_Initialize",
     "TSXGetKeyboardControl", "X11DRV_EVENT_Init", "LoadLibrary16"}
    \cup (IF build.HAVE_LIBXXF86VM THEN {"X11DRV_XF86VM_Init"} ELSE {})
    \cup (IF build.NO_REENTRANT_X11
          THEN {"xchg_errno_location", "xchg_h_errno_location"} ELSE {})

\* C6 as claimed: the shim is installed first, then the environment is
\* negotiated (startup offset, setup_options, connection, depth, input
\* context, diagnostic mode, geometry), then the desktop window, the
\* graphics backend, the keyboard snapshot, the event backend, the
\* video-mode backend and the display module; no statement of a later
\* stage runs before one of an earlier stage.
C6_ShimFirstOrder ==
    \A i \in 1..(Len(log) - 1) : ClaimStage(log[i]) <= ClaimStage(log[i + 1])

\* C6 amended: the startup offset and setup_options run first, then the
\* shim is installed, then the connection is opened and the rest follows in
\* the claimed order; a completed attach has run every stage.
C6_AttachOrder ==
    /\ \A i \in 1..(Len(log) - 1) : CodeStage(log[i]) <= CodeStage(log[i + 1])
    /\ (phase = "Ready" => RequiredStages \subseteq Range(log))
    /\ (phase = "Ready" /\ Options.desktopGeometry # NULL) => InLog("TSXMapWindow")

\* An attach that built the desktop window and ran every optional stage.
C6_Witness ==
    /\ phase = "Ready" /\ window = "mapped"
    /\ InLog("X11DRV_XF86VM_Init") /\ InLog("XSetErrorHandler")
    /\ InLog("set_old_h_errno_location")

\* C7: while attach runs, whenever the loading thread is in a library call
\* or has made one, the lock and unlock hooks (and in the non-reentrant
\* build the two error-location hooks) are the driver's.
HooksInstalled ==
    /\ hooks.lock = "lock_tsx11" /\ hooks.unlock = "unlock_tsx11"
    /\ (build.NO_REENTRANT_X11 =>
           (hooks.errno = "x11_errno_location" /\ hooks.h_errno = "x11_h_errno_location"))

C7_HooksBeforeLibrary ==
    (phase = "Attaching" /\ (xcall # NULL \/ \E e \in LibraryStatements : InLog(e)))
        => HooksInstalled

\* The connection is being opened in the non-reentrant build.
C7_Witness ==
    phase = "Attaching" /\ xcall = "TSXOpenDisplay" /\ build.NO_REENTRANT_X11

\* C8: a setup_options that could open the registry key and finds a
\* display value A there returns with Options.display = A and the registry
\* value still A, without ending the process; it prints one warning when the
\* option (or, without an option, $DISPLAY) is set and differs from A, and
\* none when it equals A.
WarningMessages ==
    {"warning: --display option ignored", "warning: $DISPLAY variable ignored"}
Warnings(m) == Cardinality({i \in 1..Len(m) : m[i] \in WarningMessages})
Supplied == IF Options.display # NULL THEN Options.display ELSE env_DISPLAY

C8_PersistedDisplayWins ==
    [][(/\ Stmt = "setup_options" /\ log' # log
        /\ registry.display # NULL
        /\ ~("Cannot create config registry key" \in Range(messages')))
       => /\ exit_status' = NULL
          /\ Options'.display = registry.display
          /\ registry'.display = registry.display
          /\ Warnings(messages') =
                 IF Supplied # NULL /\ Supplied # registry.display THEN 1 ELSE 0]_vars

\* setup_options returned after warning that the --display option lost
\* against the registry value.
C8_Witness ==
    /\ InLog("setup_options") /\ exit_status = NULL
    /\ messages = <<"warning: --display option ignored">>
    /\ Options.display = "A:0" /\ registry.display = "A:0"

\* C9: when the option, $DISPLAY and the registry value are all absent,
\* setup_options ends the process with status 1; the display is never
\* opened, no hook is replaced and no registry value is written.
NoAddress ==
    Options.display = NULL /\ env_DISPLAY = NULL /\ registry.display = NULL

C9_NoAddressIsFatal ==
    /\ [](NoAddress =>
            /\ display = NULL /\ ~InLog("TSXOpenDisplay") /\ xcall = NULL
            /\ hooks = [lock |-> "nop_lock", unlock |-> "nop_unlock",
                        errno |-> "libc_errno_location",
                        h_errno |-> "libc_h_errno_location"]
            /\ (InLog("setup_options") => exit_status = "1"))
    /\ [][NoAddress => (registry' = registry /\ (log' # log => NoAddress'))]_vars

\* The process ended in setup_options for want of an address.
C9_Witness ==
    /\ NoAddress /\ exit_status = "1"
    /\ messages = <<"no display specified">>

\* C10: a ScreenDepth that is not 0 and not among the depths of the screen
\* ends the process with status 1 at the depth check, before any window is
\* created; otherwise, until create_desktop replaces the visual, screen_depth
\* is the requested depth, or the default depth of the screen when
\* ScreenDepth is 0.
DepthListed == wine_ini.ScreenDepth \in Range(XScreen.depths)
PastDepthCheck ==
    \/ phase \in {"Ready", "Detaching", "Detached"}
    \/ phase = "Attaching" /\ mpc >= IndexOf("TSXOpenIM")

C10_DepthNegotiation ==
    /\ [](/\ ((wine_ini.ScreenDepth # 0 /\ ~DepthListed) =>
               (~PastDepthCheck /\ window = "none" /\ ~InLog("TSXCreateWindow")))
           /\ ((PastDepthCheck /\ visual = "DefaultVisual") =>
               screen_depth = IF wine_ini.ScreenDepth # 0
                              THEN wine_ini.ScreenDepth ELSE XScreen.default_depth))
    /\ [][(Stmt = "check_depth" /\ local' # local /\ ~DepthListed)
             => exit_status' = "1"]_vars

\* The process ended at the depth check although a desktop was asked for.
C10_Witness ==
    /\ phase = "Attaching" /\ mpc = IndexOf("check_depth") /\ exit_status = "1"
    /\ Options.desktopGeometry # NULL /\ window = "none"

\* The requested depth was taken and is not the default depth.
C10_RequestedTaken ==
    /\ phase = "Ready" /\ screen_depth = wine_ini.ScreenDepth
    /\ screen_depth # XScreen.default_depth

\* C11: keyboard_state is written only by the TSXGetKeyboardControl of
\* attach, which stores the settings the server holds at that moment; a
\* detach runs only after that snapshot; and the XChangeKeyboardControl of
\* detach sends exactly the five values of the snapshot, whatever the
\* server's settings have become since.
C11_KeyboardRestored ==
    /\ [](phase \in {"Detaching", "Detached"} => InLog("TSXGetKeyboardControl"))
    /\ [][(keyboard_state' # keyboard_state)
            => (xcall = "TSXGetKeyboardControl" /\ keyboard_state' = server_keyboard)]_vars
    /\ [][(Stmt = "XChangeKeyboardControl" /\ xcall # NULL /\ xcall' = NULL)
            => server_keyboard' = keyboard_state]_vars

\* The settings were changed after the snapshot and detach is in the
\* XChangeKeyboardControl that sends the snapshot.
C11_Witness ==
    /\ phase = "Detaching" /\ xcall = "XChangeKeyboardControl"
    /\ keyboard_state \in KeyboardSettings
    /\ server_keyboard # keyboard_state

\* C12: whenever Options.desktopGeometry is set, Options.managed is FALSE
\* from the moment create_desktop is entered: while the desktop window is
\* built, when attach has completed, and afterwards.
C12_DesktopForcesManagedOff ==
    (/\ Options.desktopGeometry # NULL
     /\ \/ InLog("create_desktop")
        \/ window # "none"
        \/ phase \in {"Ready", "Detaching", "Detached"})
        => ~Options.managed

\* Attach completed with a desktop window although managed mode had been
\* asked for: setup_options recorded "y", the flag is off.
C12_Witness ==
    /\ phase = "Ready" /\ window = "mapped" /\ Options.desktopGeometry # NULL
    /\ registry.managed = "y" /\ ~Options.managed

\* C13: once attach and then detach have run, wine_tsx11_lock,
\* wine_tsx11_unlock, wine_errno_location and wine_h_errno_location each
\* hold the hook that was installed before the attach.
HooksBeforeAttach ==
    [lock |-> "nop_lock", unlock |-> "nop_unlock",
     errno |-> "libc_errno_location", h_errno |-> "libc_h_errno_location"]

C13_HooksRestored ==
    phase = "Detached" => hooks = HooksBeforeAttach

\* Detach of the non-reentrant build has put back all four hooks that
\* attach had saved.
C13_Witness ==
    /\ phase = "Detached" /\ build.NO_REENTRANT_X11
    /\ old = HooksBeforeAttach
    /\ InLog("restore_tsx11_hooks") /\ InLog("restore_errno_hooks")

\* C14: the timeout X11DRV_SetScreenSaveTimeout passes to the server is in
\* 0..32767, and is 32767 for every argument above 32767.
C14_TimeoutClamped ==
    screen_saver.called =>
        /\ screen_saver.timeout \in 0..32767
        /\ (screen_saver.nTimeout > 32767 => screen_saver.timeout = 32767)

\* C15: setup_options leaves every registry value that existed before it
\* ran as it was; it writes "display", "managed" or "desktop" only where
\* the registry held no value for it.
RegistryValues == {"display", "managed", "desktop"}

C15_WriteBackOnlyWhenAbsent ==
    [][(Stmt = "setup_options" /\ log' # log)
         => \A k \in RegistryValues :
                registry[k] # NULL => registry'[k] = registry[k]]_vars

\* C16 as claimed: each of Options.managed and Options.desktopGeometry that
\* the caller supplied is kept by setup_options, and each one the caller
\* did not supply is loaded from the registry when a value is there,
\* whether or not the other one was supplied.
ManagedFromRegistry(reg) == IS_OPTION_TRUE(reg.managed)
DesktopFromRegistry(reg) == IF IS_OPTION_FALSE(reg.desktop) THEN NULL ELSE reg.desktop
SetupReturns == Stmt = "setup_options" /\ log' # log /\ exit_status' = NULL

C16_FieldsLoadedIndependently ==
    [][SetupReturns =>
        /\ (Options.managed => Options'.managed)
        /\ (Options.desktopGeometry # NULL =>
               Options'.desktopGeometry = Options.desktopGeometry)
        /\ ((~Options.managed /\ registry.managed # NULL) =>
               Options'.managed = ManagedFromRegistry(registry))
        /\ ((Options.desktopGeometry = NULL /\ registry.desktop # NULL) =>
               Options'.desktopGeometry = DesktopFromRegistry(registry))]_vars

\* C16 amended: a field the caller supplied is kept; the two fields are
\* loaded from the registry only when the caller supplied neither of them,
\* and then each is loaded when the registry holds a value for it; when
\* the caller supplied either field, the other stays as the caller left it.
C16_FieldsLoadedTogether ==
    [][SetupReturns =>
        /\ (Options.managed => Options'.managed)
        /\ (Options.desktopGeometry # NULL =>
               Options'.desktopGeometry = Options.desktopGeometry)
        /\ ((~Options.managed /\ Options.desktopGeometry = NULL) =>
               /\ (registry.managed # NULL =>
                      Options'.managed = ManagedFromRegistry(registry))
               /\ (registry.managed = NULL => ~Options'.managed)
               /\ (registry.desktop # NULL =>
                      Options'.desktopGeometry = DesktopFromRegistry(registry))
               /\ (registry.desktop = NULL => Options'.desktopGeometry = NULL))
        /\ ((Options.managed \/ Options.desktopGeometry # NULL) =>
               /\ Options'.managed = Options.managed
               /\ Options'.desktopGeometry = Options.desktopGeometry)]_vars

\* setup_options returned with the caller's --managed and without the
\* desktop geometry that the registry holds.
C16_Witness ==
    /\ InLog("setup_options") /\ exit_status = NULL
    /\ Options.managed /\ Options.desktopGeometry = NULL
    /\ registry.desktop = "800x600"

\* C17: when create_desktop ends the process because a hint structure could
\* not be allocated, no hint structure is still allocated; and when the
\* desktop window is mapped, all three have been freed.
HintStructures == {"size", "wm", "class"}

C17_HintsReleasedOnFailure ==
    /\ ("Not enough memory for window manager hints" \in Range(messages)) =>
           (exit_status = "1" /\ \A h \in HintStructures : hints[h] # "allocated")
    /\ (window = "mapped") => \A h \in HintStructures : hints[h] = "freed"

\* C18: process_detach restores the keyboard settings, then cleans up
\* XVidMode, then finalizes GDI, then puts the lock and errno hooks back;
\* a completed detach has run each of these stages of its build; and the
\* display is never closed: during and after detach it is the connection
\* that attach opened.
DetachStage(e) ==
    CASE e = "XChangeKeyboardControl" -> 1
      [] e = "X11DRV_XF86VM_Cleanup" -> 2
      [] e = "X11DRV_GDI_Finalize" -> 3
      [] e \in {"restore_tsx11_hooks", "restore_errno_hooks"} -> 4
      [] OTHER -> 0

RequiredDetachStages ==
    {"XChangeKeyboardControl", "X11DRV_GDI_Finalize", "restore_tsx11_hooks"}
    \cup (IF build.HAVE_LIBXXF86VM THEN {"X11DRV_XF86VM_Cleanup"} ELSE {})
    \cup (IF build.NO_REENTRANT_X11 THEN {"restore_errno_hooks"} ELSE {})

C18_DetachOrder ==
    /\ [](/\ \A i \in 1..(Len(log) - 1) : DetachStage(log[i]) <= DetachStage(log[i + 1])
          /\ (phase = "Detached" => RequiredDetachStages \subseteq Range(log))
          /\ (phase \in {"Detaching", "Detached"} => display = XScreen))
    /\ [][(phase \in {"Detaching", "Detached"}) => (display' = display)]_vars

\* A detach of a build with XVidMode and the errno hooks has completed.
C18_Witness ==
    /\ phase = "Detached" /\ display = XScreen
    /\ build.HAVE_LIBXXF86VM /\ build.NO_REENTRANT_X11
    /\ InLog("X11DRV_XF86VM_Cleanup") /\ InLog("restore_errno_hooks")

\* C19: whenever wine_errno_location (wine_h_errno_location) is the
\* driver's hook, old_errno_location (old_h_errno_location) already holds
\* the hook that was installed before attach.
C19_OldHookSetWhenPublished ==
    \A which \in Locations :
        (hooks[which] = X11Hook(which)) => (old[which] = HooksBeforeAttach[which])

\* C20: a setup_options that starts with a registry that does not hold both
\* managed "y" and a desktop geometry never leaves it holding both.
RegistryBothModes(reg) ==
    reg.managed = "y" /\ reg.desktop # NULL /\ ~IS_OPTION_FALSE(reg.desktop)

C20_RegistryModesExclusive ==
    [][(Stmt = "setup_options" /\ log' # log /\ ~RegistryBothModes(registry))
         => ~RegistryBothModes(registry')]_vars

====
